---- MODULE Spec2Model ----
(***************************************************************************)
(* A model of aribhls (src/aribhls.mts): the ASS timestamp codec, the      *)
(* AssDialogueQueue, the start-up reconstruction of the playlist window,   *)
(* the line handler and the asynchronous write_segment rotation together   *)
(* with the files they read and write.                                     *)
(*                                                                         *)
(* Text is modelled as a sequence of one-character strings, so that the    *)
(* code's substring / split / padStart / padEnd / Number calls are         *)
(* computed as the code computes them.                                     *)
(***************************************************************************)
EXTENDS Integers, Sequences, FiniteSets, TLC

VARIABLES
    \* SpecCodec: one time, its text, and the time parsed back
    ts_pc, ts_in, ts_text, ts_out,
    \* SpecQueue: an AssDialogueQueue, the batch its last call returned, the
    \* number of push calls and the batches returned so far, concatenated
    q_pc, q_queue, q_buf, q_calls, q_out,
    \* Spec: the process
    phase,          \* "boot" (before Read current playlist), "run", "exit", "off"
    events,         \* the event buffer
    playlist,       \* the window
    seq,            \* the sequence counter
    is_first,
    last_time,
    timer,          \* handle: the timer write_segment_to names is pending;
                    \* stale: pending timers no variable names any more
    drains,         \* the calls of write_segment in progress
    \* Spec: the files
    plfile,         \* the file at the playlist path
    tmpfile,        \* the file at the playlist path + ".tmp"
    segfiles,       \* the segment files, by name
    mplfile,        \* the master playlist
    \* Spec: history
    startup,        \* whether a playlist exists at start-up, and the (seq,
                    \* window) it was written for
    rendered,       \* every text write_playlist has built
    pushed,         \* the segments appended to the window, in order
    evicted,        \* the number of segments evicted from the window
    fed,            \* the number of lines handled
    last_line,      \* the record parsed from the last line handled
    written,        \* per segment appended: the records shifted off the
                    \* buffer for it and the lines written into its file
    stdin           \* SpecParse: the line on standard input, and whether
                    \* the line handler has been called with it

codecVars == <<ts_pc, ts_in, ts_text, ts_out>>

queueVars == <<q_pc, q_queue, q_buf, q_calls, q_out>>

procVars == <<phase, events, playlist, seq, is_first, last_time, timer, drains>>

fileVars == <<plfile, tmpfile, segfiles, mplfile>>

histVars == <<startup, rendered, pushed, evicted, fed, last_line, written, stdin>>

mainVars == <<procVars, fileVars, histVars>>

vars == <<codecVars, queueVars, mainVars>>

\* The variables of a specification that another specification leaves alone
IdleCodecVars ==
    /\ ts_pc = "off"
    /\ ts_in = 0
    /\ ts_text = <<>>
    /\ ts_out = 0

IdleQueueVars ==
    /\ q_pc = "off"
    /\ q_queue = <<>>
    /\ q_buf = <<>>
    /\ q_calls = 0
    /\ q_out = <<>>

NoFile == [exists |-> FALSE, content |-> <<>>, writers |-> {}]

NoRecord == [Start |-> 0, End |-> 0, Style |-> "", Text |-> ""]

\* No line on standard input but those the line actions supply
NoStdin == [line |-> <<>>, read |-> TRUE]

IdleMainVars ==
    /\ phase = "off"
    /\ events = <<>>
    /\ playlist = <<>>
    /\ seq = 0
    /\ is_first = TRUE
    /\ last_time = [Start |-> 0, End |-> 0]
    /\ timer = [handle |-> FALSE, stale |-> 0]
    /\ drains = <<>>
    /\ plfile = NoFile
    /\ tmpfile = NoFile
    /\ segfiles = <<>>
    /\ mplfile = NoFile
    /\ startup = [exists |-> FALSE, seq |-> 0, window |-> <<>>]
    /\ rendered = {}
    /\ pushed = <<>>
    /\ evicted = 0
    /\ fed = 0
    /\ last_line = NoRecord
    /\ written = <<>>
    /\ stdin = NoStdin

(***************************************************************************)
(* JavaScript values and string primitives                                 *)
(***************************************************************************)

\* JavaScript's Infinity: larger than every finite time of the model, and
\* absorbing under addition (see Plus).
Infinity == 1000000000

\* JavaScript's NaN, as Number('-') or Number('0a') gives it: absorbing under
\* + and *, and never less or greater than anything (see Greater)
NaN == -999999999

Plus(a, b) ==
    IF a = NaN \/ b = NaN THEN NaN
    ELSE IF a = Infinity \/ b = Infinity THEN Infinity
    ELSE a + b

JsAdd(a, b) == IF a = NaN \/ b = NaN THEN NaN ELSE a + b

JsMul(a, b) == IF a = NaN \/ b = NaN THEN NaN ELSE a * b

\* a > b on numbers
Greater(a, b) == a # NaN /\ b # NaN /\ a > b

Digits == <<"0", "1", "2", "3", "4", "5", "6", "7", "8", "9">>

DigitChar(d) == Digits[d + 1]

DigitVal(c) == CHOOSE d \in 0..9 : Digits[d + 1] = c

\* Number.prototype.toString() of a non-negative integer
RECURSIVE NatToString(_)
NatToString(n) ==
    IF n < 10 THEN <<DigitChar(n)>>
    ELSE Append(NatToString(n \div 10), DigitChar(n % 10))

IsDigit(c) == \E d \in 0..9 : Digits[d + 1] = c

\* Number(str) of an unsigned string: Number('') is 0, a string of decimal
\* digits is its value, and a string holding anything else is NaN (the texts
\* of the model hold no blank, exponent, radix prefix or decimal point here)
RECURSIVE Number(_)
Number(str) ==
    IF Len(str) = 0 THEN 0
    ELSE IF \E i \in 1..Len(str) : ~IsDigit(str[i]) THEN NaN
    ELSE 10 * Number(SubSeq(str, 1, Len(str) - 1)) + DigitVal(str[Len(str)])

\* Number(str) of an optionally signed string; a lone sign is NaN
JsNumber(str) ==
    IF Len(str) > 0 /\ str[1] = "-"
    THEN IF Len(str) = 1 THEN NaN ELSE JsMul(-1, Number(Tail(str)))
    ELSE Number(str)

Min(a, b) == IF a < b THEN a ELSE b

Max(a, b) == IF a > b THEN a ELSE b

\* String.prototype.substring(from, to) with 0-based indices, to exclusive;
\* arguments are clamped to [0, length] and swapped when from > to
Substring(str, from, to) ==
    LET f == Max(0, Min(from, Len(str)))
        t == Max(0, Min(to, Len(str)))
    IN  SubSeq(str, Min(f, t) + 1, Max(f, t))

RECURSIVE PadStart(_, _, _)
PadStart(str, n, c) == IF Len(str) >= n THEN str ELSE PadStart(<<c>> \o str, n, c)

RECURSIVE PadEnd(_, _, _)
PadEnd(str, n, c) == IF Len(str) >= n THEN str ELSE PadEnd(Append(str, c), n, c)

\* String.prototype.indexOf(c): 0-based index of the first c, or -1
IndexOf(str, c) ==
    IF \E i \in 1..Len(str) : str[i] = c
    THEN (CHOOSE i \in 1..Len(str) : str[i] = c /\ \A j \in 1..(i - 1) : str[j] # c) - 1
    ELSE -1

\* String.prototype.split(c): every piece between separators
RECURSIVE SplitAll(_, _)
SplitAll(str, c) ==
    LET i == IndexOf(str, c)
    IN  IF i = -1 THEN <<str>>
        ELSE <<Substring(str, 0, i)>> \o SplitAll(Substring(str, i + 1, Len(str)), c)

\* String.prototype.split(c, limit): the first `limit` pieces
Split(str, c, limit) ==
    LET all == SplitAll(str, c)
    IN  SubSeq(all, 1, Min(limit, Len(all)))

(***************************************************************************)
(* AssDialogue timestamp codec                                             *)
(***************************************************************************)

OpenEndLiteral == <<"9", ":", "5", "9", ":", "5", "9", ".", "9", "9">>

\* AssDialogue.parseTSString throws a TypeError on a text without a dot: ms
\* is undefined and ms.substring is called on it
parseTSStringThrows(str) ==
    /\ str # OpenEndLiteral
    /\ LET negative == Len(str) > 0 /\ str[1] = "-"
           body     == Substring(str, IF negative THEN 1 ELSE 0, Len(str))
       IN  IndexOf(body, ".") = -1

\* Number(x) of a piece of a split: Number(undefined) is NaN
NumberAt(pieces, i) == IF i <= Len(pieces) THEN JsNumber(pieces[i]) ELSE NaN

\* AssDialogue.parseTSString (of a text it does not throw on)
parseTSString(str) ==
    IF str = OpenEndLiteral THEN Infinity
    ELSE
        LET negative == Len(str) > 0 /\ str[1] = "-"
            body     == Substring(str, IF negative THEN 1 ELSE 0, Len(str))
            parts    == Split(body, ".", 2)
            time     == parts[1]
            ms       == IF Len(parts) > 1 THEN parts[2] ELSE <<>>
            hms      == Split(time, ":", 3)
        IN  JsMul(IF negative THEN -1 ELSE 1,
                  JsAdd(JsAdd(JsAdd(JsMul(NumberAt(hms, 1), 60 * 60 * 1000),
                                    JsMul(NumberAt(hms, 2), 60 * 1000)),
                              JsMul(NumberAt(hms, 3), 1000)),
                        JsNumber(PadEnd(Substring(ms, 0, 3), 3, "0"))))

\* AssDialogue.toASSTSString: ~~x of NaN and of Infinity is 0 (the finite
\* times of the model are below 2^31 hours, where ~~ truncates)
toASSTSString(time) ==
    IF time = NaN \/ time = Infinity
    THEN <<"0", ":", "0", "0", ":", "0", "0", ".", "0", "0">>
    ELSE
    LET sign    == IF time < 0 THEN <<"-">> ELSE <<>>
        abstime == IF time < 0 THEN -time ELSE time
    IN  sign
        \o PadStart(NatToString(abstime \div (60 * 60 * 1000)), 1, "0")
        \o <<":">>
        \o PadStart(NatToString((abstime % (60 * 60 * 1000)) \div (60 * 1000)), 2, "0")
        \o <<":">>
        \o PadStart(NatToString((abstime % (60 * 1000)) \div 1000), 2, "0")
        \o <<".">>
        \o PadEnd(Substring(NatToString(abstime % 1000), 0, 2), 2, "0")

(***************************************************************************)
(* AssDialogue and AssDialogueQueue                                        *)
(***************************************************************************)

ARIB_INFINITY == 35999990

\* AssDialogue.constructor: the numeric attributes of a record whose Start and
\* End fields hold the given texts (an empty End field leaves the end open)
AssDialogue(startText, endText, style, text) ==
    [ Start |-> parseTSString(startText),
      End   |-> IF Len(endText) > 0 THEN parseTSString(endText) ELSE Infinity,
      Style |-> style,
      Text  |-> text ]

\* The field names the Format line declares
eventFormat ==
    <<"Layer", "Start", "End", "Style", "Name",
      "MarginL", "MarginR", "MarginV", "Effect", "Text">>

\* String.prototype.indexOf(c, from)
IndexOfFrom(str, c, from) ==
    IF \E i \in (from + 1)..Len(str) : str[i] = c
    THEN (CHOOSE i \in (from + 1)..Len(str) :
            str[i] = c /\ \A j \in (from + 1)..(i - 1) : str[j] # c) - 1
    ELSE -1

\* AssDialogue.constructor: the loop that cuts the line at its commas, the
\* last declared field taking the rest; idx and pos as in the code
RECURSIVE ConstructLoop(_, _, _, _, _)
ConstructLoop(str, format, idx, pos, attribs) ==
    LET prev     == pos + 1
        next     == IF idx = Len(format) - 1 THEN -1 ELSE IndexOfFrom(str, ",", prev)
        value    == Substring(str, prev, IF next = -1 THEN Len(str) ELSE next)
        assigned == (format[idx + 1] :> value) @@ attribs
    IN  IF next = -1 THEN assigned
        ELSE ConstructLoop(str, format, idx + 1, next, assigned)

\* AssDialogue.constructor: attribs, with pos starting at 'Dialogue:'.length
Attribs(str, format) == ConstructLoop(str, format, 0, 9, <<>>)

\* new AssDialogue(str, format) throws a TypeError: parseTSString is called
\* on an undefined Start, or on a Start or a non-empty End without a dot
ConstructorThrows(str, format) ==
    LET attribs == Attribs(str, format)
    IN  \/ "Start" \notin DOMAIN attribs
        \/ parseTSStringThrows(attribs["Start"])
        \/ /\ "End" \in DOMAIN attribs
           /\ Len(attribs["End"]) > 0
           /\ parseTSStringThrows(attribs["End"])

\* A field the line did not reach is undefined
UndefinedField == "undefined"

\* The Style or Text of a record (one symbol in the lines of the model)
FieldAtom(attribs, name) ==
    IF name \notin DOMAIN attribs THEN UndefinedField
    ELSE IF Len(attribs[name]) = 0 THEN ""
    ELSE attribs[name][1]

\* new AssDialogue(str, format), when it does not throw
Construct(str, format) ==
    LET attribs == Attribs(str, format)
    IN  [ Start |-> parseTSString(attribs["Start"]),
          End   |-> IF "End" \in DOMAIN attribs /\ Len(attribs["End"]) > 0
                    THEN parseTSString(attribs["End"])
                    ELSE Infinity,
          Style |-> FieldAtom(attribs, "Style"),
          Text  |-> FieldAtom(attribs, "Text") ]

\* The loop of AssDialogueQueue.push: shift items off the queue and close each
\* at the new start, until one that starts at the new start is met
RECURSIVE CloseOpen(_, _, _)
CloseOpen(queue, closed, newStart) ==
    IF Len(queue) = 0 THEN [closed |-> closed, queue |-> queue]
    ELSE IF Head(queue).Start = newStart THEN [closed |-> closed, queue |-> queue]
    ELSE CloseOpen(Tail(queue),
                   Append(closed, [Head(queue) EXCEPT !.End = newStart]),
                   newStart)

\* push, were it to return the closed items and keep them queued as well
QueuePushKeepClosed(queue, new_item) ==
    LET c == CloseOpen(queue, <<>>, new_item.Start)
    IN  IF new_item.End # Infinity
        THEN [ buf   |-> IF new_item.Text # "" THEN Append(c.closed, new_item)
                         ELSE c.closed,
               queue |-> c.closed \o c.queue ]
        ELSE [ buf   |-> c.closed,
               queue |-> IF new_item.Text # "" THEN Append(c.closed \o c.queue, new_item)
                         ELSE c.closed \o c.queue ]

\* AssDialogueQueue.push: [buf |-> the returned batch, queue |-> the queue left]
QueuePush(queue, new_item) ==
    LET c == CloseOpen(queue, <<>>, new_item.Start)
    IN  IF new_item.End # Infinity
        THEN [ buf   |-> IF new_item.Text # "" THEN Append(c.closed, new_item)
                         ELSE c.closed,
               queue |-> c.queue ]
        ELSE [ buf   |-> c.closed,
               queue |-> IF new_item.Text # "" THEN Append(c.queue, new_item)
                         ELSE c.queue ]

\* AssDialogueQueue.flush with _maxDuration
QueueFlush(queue, maxDuration) ==
    [ buf   |-> [ i \in 1..Len(queue) |->
                    IF queue[i].End = Infinity
                    THEN [queue[i] EXCEPT !.End = Plus(queue[i].Start, maxDuration)]
                    ELSE queue[i] ],
      queue |-> <<>> ]

(***************************************************************************)
(* Options, and the media playlist as text                                 *)
(***************************************************************************)

\* opts.hls_time (seconds) and opts.hls_list_size (segments)
hls_time == 2

hls_list_size == 2

\* Date.now() at start-up, in ms
timebase == 5000000

\* Number.prototype.toString() of an integer
NumToString(n) == IF n < 0 THEN <<"-">> \o NatToString(-n) ELSE NatToString(n)

\* Date.prototype.toISOString() with its final Z replaced by +0000: the whole
\* seconds (standing for YYYY-MM-DDTHH:mm:ss), a dot, three digits of ms
ProgramDateTimeText(date) ==
    NatToString(date \div 1000) \o <<".">>
    \o PadStart(NatToString(date % 1000), 3, "0") \o <<"+0000">>

\* new Date(text) of such a text, in ms
DateOfText(str) ==
    LET parts == Split(str, ".", 2)
    IN  Number(parts[1]) * 1000 + Number(Substring(parts[2], 0, 3))

\* The segment file name of a segment starting at `date`: the date to second
\* precision, with the extension
SegmentName(date) == NatToString(date \div 1000) \o <<".ass">>

\* One line of a playlist: the tag up to the first colon (empty for a URI
\* line) and the text after it
TagLine(tag, rest) == [tag |-> tag, rest |-> rest]

\* write_playlist: the lines of one segment
SegmentLines(segment) ==
    LET duration == NumToString(segment.duration)
    IN  (IF segment.discontinuity
         THEN <<TagLine("#EXT-X-DISCONTINUITY", <<>>), TagLine("#EXT-X-MAP", <<"init.ass">>)>>
         ELSE <<>>)
        \o << TagLine("#EXTINF",
                  Substring(duration, 0, Len(duration) - 3)
                  \o <<".">>
                  \o Substring(duration, Len(duration) - 3, Len(duration))
                  \o <<"0", "0", "0", ",">>),
              TagLine("#EXT-X-PROGRAM-DATE-TIME", ProgramDateTimeText(segment.date)),
              TagLine("", segment.name) >>

RECURSIVE WindowLines(_)
WindowLines(window) ==
    IF Len(window) = 0 THEN <<>>
    ELSE SegmentLines(Head(window)) \o WindowLines(Tail(window))

\* write_playlist: the lines written for sequence number s and a window
RenderPlaylist(s, window) ==
    << TagLine("#EXTM3U", <<>>),
       TagLine("#EXT-X-VERSION", <<"6">>),
       TagLine("#EXT-X-TARGETDURATION", NatToString(hls_time)),
       TagLine("#EXT-X-MEDIA-SEQUENCE", NumToString(s)),
       TagLine("#EXT-X-INDEPENDENT-SEGMENTS", <<>>),
       TagLine("#EXT-X-MAP", <<"init.ass">>) >>
    \o WindowLines(window)

\* Read current playlist: the sequence number as read from its line
ReadMediaSequence(rest) == JsNumber(Substring(rest, 0, Len(rest) - 1))

\* Read current playlist: the duration in ms as read from an #EXTINF line
ReadExtinf(rest) ==
    LET parts == Split(Substring(rest, 0, Len(rest) - 1), ".", 2)
    IN  JsAdd(JsNumber(PadEnd(Substring(parts[2], 0, 3), 3, "0")),
              JsMul(JsNumber(parts[1]), 1000))

Undefined == [defined |-> FALSE, value |-> 0]

Defined(v) == [defined |-> TRUE, value |-> v]

\* !x of a number or undefined
Falsy(x) == ~x.defined \/ x.value = 0 \/ x.value = NaN

\* Read current playlist: the loop over the lines; st holds seq, playlist and
\* the pending duration, program_date_time and discontinuity
RECURSIVE ReadLines(_, _)
ReadLines(lines, st) ==
    IF Len(lines) = 0 THEN st
    ELSE
        LET line == Head(lines)
            next ==
                IF line.tag = "#EXT-X-MEDIA-SEQUENCE"
                    THEN [st EXCEPT !.seq = ReadMediaSequence(line.rest)]
                ELSE IF line.tag = "#EXT-X-DISCONTINUITY"
                    THEN [st EXCEPT !.discontinuity = TRUE]
                ELSE IF line.tag = "#EXTINF"
                    THEN [st EXCEPT !.duration = Defined(ReadExtinf(line.rest))]
                ELSE IF line.tag = "#EXT-X-PROGRAM-DATE-TIME"
                    THEN [st EXCEPT !.program_date_time = Defined(DateOfText(line.rest))]
                ELSE IF line.tag # ""
                    THEN st
                ELSE IF ~st.program_date_time.defined
                    THEN st
                ELSE IF Falsy(st.duration)
                    THEN st
                ELSE [st EXCEPT
                        !.playlist = Append(@, [ name          |-> line.rest,
                                                 date          |-> st.program_date_time.value,
                                                 duration      |-> st.duration.value,
                                                 discontinuity |-> st.discontinuity ]),
                        !.duration = Undefined,
                        !.program_date_time = Undefined,
                        !.discontinuity = FALSE]
        IN  ReadLines(Tail(lines), next)

ReadPlaylist(lines) ==
    ReadLines(lines, [ seq |-> 0, playlist |-> <<>>, duration |-> Undefined,
                       program_date_time |-> Undefined, discontinuity |-> FALSE ])

(***************************************************************************)
(* The line handler and write_segment, as pure steps                       *)
(***************************************************************************)

\* AssDialogue.offset: Infinity + ms is Infinity
offset(row, ms) == [row EXCEPT !.Start = Plus(@, ms), !.End = Plus(@, ms)]

\* AssDialogue.toString throws a TypeError: replace is called on an undefined
\* Text
toStringThrows(row) == row.Text = UndefinedField

\* AssDialogue.toString: the fields of the Dialogue line written for a record
\* (the texts of the model hold no {\3a&Hff&} override for replace to remove)
toString(row) ==
    [ Start |-> toASSTSString(row.Start),
      End   |-> IF row.End = Infinity THEN <<>> ELSE toASSTSString(row.End),
      Style |-> row.Style,
      Text  |-> row.Text ]

\* The workaround, were it to compare with >= (a repeated time is then moved)
CorrectRolloverOrEqual(last, value) ==
    IF Greater(last, value) \/ last = value THEN Plus(value, 10 * 60 * 60 * 1000) ELSE value

\* rl.on('line'): the ffmpeg assenc 10 hours workaround for one field
CorrectRollover(last, value) ==
    IF Greater(last, value) THEN Plus(value, 10 * 60 * 60 * 1000) ELSE value

\* rl.on('line'): the record as it enters the event buffer
CorrectedRow(row, last) ==
    [row EXCEPT !.Start = CorrectRollover(last.Start, row.Start),
                !.End   = CorrectRollover(last.End, row.End),
                !.Style = IF row.Style = "Default" THEN "" ELSE row.Style]

\* write_segment: the duration of the segment holding the buffered events
SegmentDuration(evs) ==
    LET d == JsAdd(evs[Len(evs)].Start, JsMul(-1, evs[1].Start))
    IN  IF d = 0 \/ d = NaN THEN hls_time * 1000 ELSE d

\* The loop, were it to shift rows off without counting them in seq
RECURSIVE EvictLoopNoCount(_, _, _, _)
EvictLoopNoCount(i, window, s, rmq) ==
    IF i < Len(window) - hls_list_size
    THEN EvictLoopNoCount(i + 1, Tail(window), s, Append(rmq, Head(window).name))
    ELSE [window |-> window, seq |-> s, rmq |-> rmq]

\* write_segment: the loop that shifts rows off the window, with its counter i
\* compared against the length of the window as it shrinks
RECURSIVE EvictLoop(_, _, _, _)
EvictLoop(i, window, s, rmq) ==
    IF i < Len(window) - hls_list_size
    THEN EvictLoop(i + 1, Tail(window), s + 1, Append(rmq, Head(window).name))
    ELSE [window |-> window, seq |-> s, rmq |-> rmq]

\* write_segment: the entry pushed onto the window
NewSegment(name, date, duration, first) ==
    [name |-> name, date |-> date, duration |-> duration, discontinuity |-> first]

\* The master playlist's reference line, and body.includes(line)
ReferenceLine == "#EXT-X-MEDIA:TYPE=SUBTITLES"

Includes(body, l) == \E i \in 1..Len(body) : body[i] = l

(***************************************************************************)
(* Files                                                                   *)
(***************************************************************************)

\* A write of `data` at offset 0 through a descriptor opened with 'w': what
\* the file held beyond the data stays
Overwrite(content, data) == data \o SubSeq(content, Len(data) + 1, Len(content))

\* open(path, 'w') by drain d: the file is created, or truncated in place
\* (descriptors other drains hold stay open on it)
OpenForWrite(file, d) ==
    [exists |-> TRUE, content |-> <<>>,
     writers |-> IF file.exists THEN file.writers \cup {d} ELSE {d}]

\* the queued writes of drain d reach the file, and the descriptor is closed
WriteAndClose(file, d, data) ==
    [file EXCEPT !.content = Overwrite(@, data), !.writers = @ \ {d}]

SegFile(name) == IF name \in DOMAIN segfiles THEN segfiles[name] ELSE NoFile

(***************************************************************************)
(* Specification SpecQueue: any calls of push, then flush                  *)
(***************************************************************************)

\* Bound: the number of push calls before the flush
MaxPushes == 3

QueueStartTexts == {toASSTSString(1000), toASSTSString(2000), OpenEndLiteral}

QueueEndTexts == {<<>>, OpenEndLiteral, toASSTSString(3000)}

QueueItems ==
    { AssDialogue(s, e, "Default", t) :
        s \in QueueStartTexts, e \in QueueEndTexts, t \in {"", "a"} }

InitQueueVars ==
    /\ q_pc = "open"
    /\ q_queue = <<>>
    /\ q_buf = <<>>
    /\ q_calls = 0
    /\ q_out = <<>>

\* The record of the n-th push call: the object identity of the AssDialogue
\* is its arrival number
Arrived(item, n) ==
    [ Start |-> item.Start, End |-> item.End, Style |-> item.Style,
      Text |-> item.Text, arrival |-> n ]

Push(new_item) ==
    /\ q_pc # "off"
    /\ q_calls < MaxPushes
    /\ LET r == QueuePush(q_queue, Arrived(new_item, q_calls + 1))
       IN  /\ q_buf' = r.buf
           /\ q_queue' = r.queue
           /\ q_out' = q_out \o r.buf
    /\ q_calls' = q_calls + 1
    /\ q_pc' = "open"
    /\ UNCHANGED <<codecVars, mainVars>>

Flush ==
    /\ q_pc # "off"
    /\ LET r == QueueFlush(q_queue, ARIB_INFINITY)
       IN  /\ q_buf' = r.buf
           /\ q_queue' = r.queue
           /\ q_out' = q_out \o r.buf
    /\ q_pc' = "flushed"
    /\ UNCHANGED <<q_calls, codecVars, mainVars>>

NextQueue == (\E new_item \in QueueItems : Push(new_item)) \/ Flush

InitQueue == InitQueueVars /\ IdleCodecVars /\ IdleMainVars

SpecQueue == InitQueue /\ [][NextQueue]_vars

\* The arrival numbers of a batch, or of batches concatenated, are increasing
InArrivalOrder(batch) ==
    \A i, j \in 1..Len(batch) : i < j => batch[i].arrival < batch[j].arrival

\* C7: no record returned by push or by flush has an open (infinite) end.
C7_NoOpenEndEmitted ==
    \A i \in 1..Len(q_buf) : q_buf[i].End # Infinity

(***************************************************************************)
(* Specification SpecCodec: format a time, then parse the text             *)
(***************************************************************************)

\* Bound: the codec is exercised on every t in -MaxMs..MaxMs, on the same
\* range around one hour, and on the times next to the 10 hour wrap.
MaxMs == 130

OneHour == 60 * 60 * 1000

CodecInputs ==
    (-MaxMs..MaxMs)
    \cup {OneHour + d : d \in -MaxMs..MaxMs}
    \cup {-(OneHour + d) : d \in 0..MaxMs}
    \cup {35999000, 35999980, 35999999, 36000100, 71999990}

InitCodecVars ==
    /\ ts_pc = "input"
    /\ ts_in \in CodecInputs
    /\ ts_text = <<>>
    /\ ts_out = 0

Format ==
    /\ ts_pc = "input"
    /\ ts_text' = toASSTSString(ts_in)
    /\ ts_pc' = "formatted"
    /\ UNCHANGED <<ts_in, ts_out, queueVars, mainVars>>

Parse ==
    /\ ts_pc = "formatted"
    /\ ts_out' = parseTSString(ts_text)
    /\ ts_pc' = "parsed"
    /\ UNCHANGED <<ts_in, ts_text, queueVars, mainVars>>

NextCodec == Format \/ Parse

InitCodec == InitCodecVars /\ IdleQueueVars /\ IdleMainVars

SpecCodec == InitCodec /\ [][NextCodec]_vars

\* t truncated toward zero to centisecond precision
TruncCs(t) == IF t < 0 THEN -((-t) - ((-t) % 10)) ELSE t - (t % 10)

\* C8: for every t whose text is not the open-ended literal, parsing the
\* subtitle-dialect formatting of t yields t truncated toward zero to
\* centisecond precision (so parse(format(t)) = t for multiples of 10 ms).
C8_RoundTrip ==
    (ts_pc = "parsed" /\ ts_text # OpenEndLiteral) => ts_out = TruncCs(ts_in)

(***************************************************************************)
(* Specification Spec: start-up, the line handler, the rotation timer and  *)
(* the asynchronous steps of write_segment                                 *)
(***************************************************************************)

\* Bounds: lines fed on standard input, calls of write_segment in progress at
\* once, and pending timers that write_segment_to no longer names
MaxLines == 2

MaxDrains == 2

MaxStale == 1

\* The dialogue lines fed: (Start text, End text)
LineTexts ==
    { <<toASSTSString(100), OpenEndLiteral>>,
      <<toASSTSString(700), toASSTSString(1700)>>,
      <<toASSTSString(35999000), OpenEndLiteral>> }

Lines == { AssDialogue(t[1], t[2], "Default", "a") : t \in LineTexts }

\* Segments an earlier run left in the playlist, and their files
OldSegment(date, duration, first) ==
    NewSegment(SegmentName(date), date, duration, first)

OldWindow ==
    << OldSegment(1000000, 2000, TRUE),
       OldSegment(1002050, 600, FALSE),
       OldSegment(1004007, 50, FALSE) >>

\* What an earlier run left at the playlist path: nothing, or the playlist it
\* wrote for a sequence number and a window
Startups ==
    { [exists |-> FALSE, seq |-> 0, window |-> <<>>],
      [exists |-> TRUE, seq |-> 7, window |-> OldWindow],
      [exists |-> TRUE, seq |-> 12, window |-> Tail(OldWindow)] }

OldFile(content) == [exists |-> TRUE, content |-> content, writers |-> {}]

\* The master playlist at start-up: missing, without or with the reference
MasterStartups ==
    { NoFile,
      OldFile(<<"#EXTM3U">>),
      OldFile(<<"#EXTM3U", ReferenceLine>>) }

IdleDrain ==
    [pc |-> "idle", name |-> <<>>, date |-> 0, duration |-> 0,
     recs |-> <<>>, out |-> <<>>, rmq |-> <<>>, buf |-> <<>>]

InitMainVars ==
    /\ phase = "boot"
    /\ events = <<>>
    /\ playlist = <<>>
    /\ seq = 0
    /\ is_first = TRUE
    /\ last_time = [Start |-> 0, End |-> 0]
    /\ timer = [handle |-> FALSE, stale |-> 0]
    /\ drains = [d \in 1..MaxDrains |-> IdleDrain]
    /\ \E st \in Startups :
         /\ startup = st
         /\ plfile = IF st.exists
                     THEN OldFile(RenderPlaylist(st.seq, st.window))
                     ELSE NoFile
         /\ segfiles = [ n \in { st.window[i].name : i \in 1..Len(st.window) } |->
                           OldFile(<<toString(NoRecord)>>) ]
    /\ tmpfile = NoFile
    /\ mplfile \in MasterStartups
    /\ rendered = {}
    /\ pushed = <<>>
    /\ evicted = 0
    /\ fed = 0
    /\ last_line = NoRecord
    /\ written = <<>>

\* Read current playlist, then the first setTimeout(write_segment)
ReadCurrentPlaylist ==
    /\ phase = "boot"
    /\ IF plfile.exists
       THEN LET r == ReadPlaylist(plfile.content)
            IN  /\ playlist' = r.playlist
                /\ seq' = r.seq
       ELSE UNCHANGED <<playlist, seq>>
    /\ phase' = "run"
    /\ timer' = [handle |-> TRUE, stale |-> 0]
    /\ UNCHANGED <<events, is_first, last_time, drains, fileVars, histVars,
                   codecVars, queueVars>>

\* rl.on('line'), given the record the constructor built from the line
HandleLine(row) ==
    /\ phase = "run"
    /\ LET fixed == CorrectedRow(row, last_time)
       IN  /\ events' = Append(events, fixed)
           /\ last_time' = [ Start |-> fixed.Start,
                             End   |-> IF fixed.End # Infinity THEN fixed.End
                                       ELSE last_time.End ]
    /\ timer' = [timer EXCEPT !.handle = TRUE]
    /\ fed' = fed + 1
    /\ last_line' = row
    /\ UNCHANGED <<phase, playlist, seq, is_first, drains, fileVars,
                   startup, rendered, pushed, evicted, written,
                   codecVars, queueVars>>

\* rl.on('line') for any of the dialogue lines
OnLine(row) ==
    /\ fed < MaxLines
    /\ HandleLine(row)
    /\ UNCHANGED stdin

\* The slot of the next call of write_segment
FreeDrain ==
    CHOOSE d \in 1..MaxDrains :
        /\ drains[d].pc = "idle"
        /\ \A e \in 1..(d - 1) : drains[e].pc # "idle"

\* A pending timer fires and write_segment runs up to its first await:
\* clearTimeout, then either the re-arm on an empty buffer or open(segment)
Tick(named) ==
    /\ phase = "run"
    /\ \E d \in 1..MaxDrains : drains[d].pc = "idle"
    /\ IF named THEN timer.handle ELSE timer.stale > 0
    /\ LET stale == IF named THEN timer.stale ELSE timer.stale - 1
       IN  IF Len(events) = 0
           THEN /\ timer' = [handle |-> TRUE, stale |-> stale]
                /\ UNCHANGED <<phase, drains>>
           ELSE IF events[1].Start = Infinity \/ events[1].Start = NaN
           THEN /\ phase' = "exit"
                /\ timer' = [handle |-> FALSE, stale |-> stale]
                /\ UNCHANGED drains
           ELSE LET now == timebase + events[1].Start
                IN  /\ timer' = [handle |-> FALSE, stale |-> stale]
                    /\ drains' = [drains EXCEPT ![FreeDrain] =
                                    [@ EXCEPT !.pc = "seg_open",
                                              !.name = SegmentName(now),
                                              !.date = now,
                                              !.duration = SegmentDuration(events)]]
                    /\ UNCHANGED phase
    /\ UNCHANGED <<events, playlist, seq, is_first, last_time, fileVars, histVars,
                   codecVars, queueVars>>

\* open(segment, 'w') is done: the events are shifted off the buffer, re-based
\* and their lines queued on the stream; close is awaited
SegmentOpened(d) ==
    /\ phase = "run"
    /\ drains[d].pc = "seg_open"
    /\ segfiles' = (drains[d].name :> OpenForWrite(SegFile(drains[d].name), d)) @@ segfiles
    /\ IF \E i \in 1..Len(events) : toStringThrows(events[i])
       THEN \* the throw is caught and the process exits, with the records up to
            \* the one toString threw on shifted off
            LET k == CHOOSE i \in 1..Len(events) :
                        /\ toStringThrows(events[i])
                        /\ \A j \in 1..(i - 1) : ~toStringThrows(events[j])
            IN  /\ phase' = "exit"
                /\ events' = SubSeq(events, k + 1, Len(events))
                /\ UNCHANGED drains
       ELSE /\ drains' = [drains EXCEPT ![d] =
                            [@ EXCEPT !.pc = "seg_close",
                                      !.recs = events,
                                      !.out = [ i \in 1..Len(events) |->
                                                  toString(offset(events[i],
                                                      timebase - drains[d].date)) ]]]
            /\ events' = <<>>
            /\ UNCHANGED phase
    /\ UNCHANGED <<playlist, seq, is_first, last_time, timer,
                   plfile, tmpfile, mplfile, histVars, codecVars, queueVars>>

\* The segment is written and closed: the window is pushed and pruned, the
\* playlist text is built and open(playlist.tmp, 'w') is awaited
SegmentClosed(d) ==
    /\ phase = "run"
    /\ drains[d].pc = "seg_close"
    /\ segfiles' = IF d \in SegFile(drains[d].name).writers
                   THEN [segfiles EXCEPT ![drains[d].name] =
                            WriteAndClose(@, d, drains[d].out)]
                   ELSE segfiles
    /\ LET segment == NewSegment(drains[d].name, drains[d].date,
                                 drains[d].duration, is_first)
           ev      == EvictLoop(0, Append(playlist, segment), seq, <<>>)
           buf     == RenderPlaylist(ev.seq, ev.window)
       IN  /\ playlist' = ev.window
           /\ seq' = ev.seq
           /\ drains' = [drains EXCEPT ![d] =
                            [@ EXCEPT !.pc = "pl_open", !.recs = <<>>, !.out = <<>>,
                                      !.rmq = ev.rmq, !.buf = buf]]
           /\ rendered' = rendered \cup {buf}
           /\ pushed' = Append(pushed, segment)
           /\ written' = Append(written, [ segment |-> segment,
                                           recs    |-> drains[d].recs,
                                           lines   |-> drains[d].out ])
           /\ evicted' = evicted + Len(ev.rmq)
    /\ UNCHANGED <<phase, events, is_first, last_time, timer,
                   plfile, tmpfile, mplfile, startup, fed, last_line, stdin,
                   codecVars, queueVars>>

\* write_playlist: open(playlist.tmp, 'w') is done and the lines are queued
PlaylistOpened(d) ==
    /\ phase = "run"
    /\ drains[d].pc = "pl_open"
    /\ tmpfile' = OpenForWrite(tmpfile, d)
    /\ drains' = [drains EXCEPT ![d].pc = "pl_close"]
    /\ UNCHANGED <<phase, events, playlist, seq, is_first, last_time, timer,
                   plfile, segfiles, mplfile, histVars, codecVars, queueVars>>

\* write_playlist: the lines are written through the descriptor, wherever the
\* file it is open on is by now, and it is closed; rename is awaited
PlaylistClosed(d) ==
    /\ phase = "run"
    /\ drains[d].pc = "pl_close"
    /\ IF d \in tmpfile.writers
       THEN /\ tmpfile' = WriteAndClose(tmpfile, d, drains[d].buf)
            /\ UNCHANGED plfile
       ELSE IF d \in plfile.writers
       THEN /\ plfile' = WriteAndClose(plfile, d, drains[d].buf)
            /\ UNCHANGED tmpfile
       ELSE UNCHANGED <<plfile, tmpfile>>
    /\ drains' = [drains EXCEPT ![d] = [@ EXCEPT !.pc = "pl_rename", !.buf = <<>>]]
    /\ UNCHANGED <<phase, events, playlist, seq, is_first, last_time, timer,
                   segfiles, mplfile, histVars, codecVars, queueVars>>

\* write_playlist: rename(playlist.tmp, playlist); without the temporary file
\* it throws and write_segment exits the process. Then readFile(master).
PlaylistRenamed(d) ==
    /\ phase = "run"
    /\ drains[d].pc = "pl_rename"
    /\ IF tmpfile.exists
       THEN /\ plfile' = tmpfile
            /\ tmpfile' = NoFile
            /\ drains' = [drains EXCEPT ![d].pc = "mpl_read"]
            /\ UNCHANGED phase
       ELSE /\ phase' = "exit"
            /\ UNCHANGED <<plfile, tmpfile, drains>>
    /\ UNCHANGED <<events, playlist, seq, is_first, last_time, timer,
                   segfiles, mplfile, histVars, codecVars, queueVars>>

\* readFile(master) is done: a missing master is swallowed; the line is
\* appended when the body read does not include it
MasterRead(d) ==
    /\ phase = "run"
    /\ drains[d].pc = "mpl_read"
    /\ IF mplfile.exists /\ ~Includes(mplfile.content, ReferenceLine)
       THEN /\ drains' = [drains EXCEPT ![d].pc = "mpl_append"]
            /\ UNCHANGED is_first
       ELSE /\ drains' = [drains EXCEPT ![d].pc = "rm"]
            /\ is_first' = FALSE
    /\ UNCHANGED <<phase, events, playlist, seq, last_time, timer,
                   fileVars, histVars, codecVars, queueVars>>

\* appendFile(master, line) is done
MasterAppended(d) ==
    /\ phase = "run"
    /\ drains[d].pc = "mpl_append"
    /\ mplfile' = [exists |-> TRUE, content |-> Append(mplfile.content, ReferenceLine),
                   writers |-> {}]
    /\ drains' = [drains EXCEPT ![d].pc = "rm"]
    /\ is_first' = FALSE
    /\ UNCHANGED <<phase, events, playlist, seq, last_time, timer,
                   plfile, tmpfile, segfiles, histVars, codecVars, queueVars>>

\* The evicted files are removed (failures swallowed) and the timer is set
Removed(d) ==
    /\ phase = "run"
    /\ drains[d].pc = "rm"
    /\ timer.handle => timer.stale < MaxStale
    /\ LET gone == { drains[d].rmq[i] : i \in 1..Len(drains[d].rmq) }
       IN  segfiles' = [ n \in DOMAIN segfiles \ gone |-> segfiles[n] ]
    /\ drains' = [drains EXCEPT ![d] = IdleDrain]
    /\ timer' = [handle |-> TRUE,
                 stale  |-> IF timer.handle THEN timer.stale + 1 ELSE timer.stale]
    /\ UNCHANGED <<phase, events, playlist, seq, is_first, last_time,
                   plfile, tmpfile, mplfile, histVars, codecVars, queueVars>>

Init == InitMainVars /\ stdin = NoStdin /\ IdleCodecVars /\ IdleQueueVars

Next ==
    \/ ReadCurrentPlaylist
    \/ \E row \in Lines : OnLine(row)
    \/ \E named \in BOOLEAN : Tick(named)
    \/ \E d \in 1..MaxDrains :
         \/ SegmentOpened(d)
         \/ SegmentClosed(d)
         \/ PlaylistOpened(d)
         \/ PlaylistClosed(d)
         \/ PlaylistRenamed(d)
         \/ MasterRead(d)
         \/ MasterAppended(d)
         \/ Removed(d)

Spec == Init /\ [][Next]_vars

(***************************************************************************)
(* Specification SpecStream: the process fed by an encoder that writes     *)
(* every timestamp modulo 10 hours                                         *)
(***************************************************************************)

\* The cues of the stream with their true times: starts do not decrease and
\* no end is before its start. The first cue ends after the 10 hour mark, the
\* second starts 1050 ms after the first, the third starts after 20 hours.
Stream ==
    << [Start |-> 35999000, End |-> 36000700],
       [Start |-> 36000050, End |-> Infinity],
       [Start |-> 72000020, End |-> Infinity] >>

\* The text the encoder writes for a time: the time modulo 10 hours as
\* H:MM:SS.cc with cc the hundredths of a second, an open end as the literal
EncoderText(time) ==
    IF time = Infinity THEN OpenEndLiteral
    ELSE LET wrapped == time % (10 * 60 * 60 * 1000)
         IN  NatToString(wrapped \div (60 * 60 * 1000))
             \o <<":">>
             \o PadStart(NatToString((wrapped % (60 * 60 * 1000)) \div (60 * 1000)), 2, "0")
             \o <<":">>
             \o PadStart(NatToString((wrapped % (60 * 1000)) \div 1000), 2, "0")
             \o <<".">>
             \o PadStart(NatToString((wrapped % 1000) \div 10), 2, "0")

\* The record the constructor builds from the line of the i-th cue
StreamRow(i) ==
    AssDialogue(EncoderText(Stream[i].Start), EncoderText(Stream[i].End), "Default", "a")

\* rl.on('line') for the next line of the stream
StreamLine ==
    /\ fed < Len(Stream)
    /\ HandleLine(StreamRow(fed + 1))
    /\ UNCHANGED stdin

\* No playlist at start-up, and a master playlist without the reference
InitStream ==
    /\ InitMainVars
    /\ ~startup.exists
    /\ mplfile = OldFile(<<"#EXTM3U">>)
    /\ stdin = NoStdin
    /\ IdleCodecVars
    /\ IdleQueueVars

NextStream ==
    \/ ReadCurrentPlaylist
    \/ StreamLine
    \/ \E named \in BOOLEAN : Tick(named)
    \/ \E d \in 1..MaxDrains :
         \/ SegmentOpened(d)
         \/ SegmentClosed(d)
         \/ PlaylistOpened(d)
         \/ PlaylistClosed(d)
         \/ PlaylistRenamed(d)
         \/ MasterRead(d)
         \/ MasterAppended(d)
         \/ Removed(d)

SpecStream == InitStream /\ [][NextStream]_vars

(***************************************************************************)
(* Specification SpecParse: the process fed one line, as text              *)
(***************************************************************************)

\* The fields of a dialogue line that fills the declared field list
FullFields(startText, endText) ==
    << <<"0">>, startText, endText, <<"Default">>, <<>>,
       <<"0">>, <<"0">>, <<"0">>, <<>>, <<"a">> >>

RECURSIVE Join(_)
Join(fields) ==
    IF Len(fields) = 0 THEN <<>>
    ELSE IF Len(fields) = 1 THEN fields[1]
    ELSE fields[1] \o <<",">> \o Join(Tail(fields))

\* 'Dialogue: ' and the fields
DialogueLine(fields) ==
    <<"D", "i", "a", "l", "o", "g", "u", "e", ":", " ">> \o Join(fields)

\* Start and End texts: well-formed ones, ones with a component that is not
\* a number, a Start without a dot, an empty End
RawStartTexts ==
    { EncoderText(1000),
      <<"0", ":", "0", "a", ":", "0", "1", ".", "0", "0">>,
      <<"0", ":", "0", "0", ":", "0", "1">> }

RawEndTexts ==
    { OpenEndLiteral,
      <<>>,
      EncoderText(2000),
      <<"0", ":", "0", "0", ":", "0", "a", ".", "0", "0">> }

\* The lines: every prefix of the fields, down to the Layer alone
RawLines ==
    { DialogueLine(SubSeq(FullFields(s, e), 1, k)) :
        s \in RawStartTexts, e \in RawEndTexts, k \in 1..Len(eventFormat) }

\* rl.on('line') with the line on standard input: the constructor throws out
\* of the handler, which ends the process, or the record is handled
RawLine ==
    /\ phase = "run"
    /\ ~stdin.read
    /\ stdin' = [stdin EXCEPT !.read = TRUE]
    /\ IF ConstructorThrows(stdin.line, eventFormat)
       THEN /\ phase' = "exit"
            /\ UNCHANGED <<events, playlist, seq, is_first, last_time, timer, drains,
                           fileVars, startup, rendered, pushed, evicted, fed,
                           last_line, written, codecVars, queueVars>>
       ELSE HandleLine(Construct(stdin.line, eventFormat))

InitParse ==
    /\ InitMainVars
    /\ ~startup.exists
    /\ mplfile = OldFile(<<"#EXTM3U">>)
    /\ stdin \in { [line |-> l, read |-> FALSE] : l \in RawLines }
    /\ IdleCodecVars
    /\ IdleQueueVars

NextParse ==
    \/ ReadCurrentPlaylist
    \/ RawLine
    \/ \E named \in BOOLEAN : Tick(named)
    \/ \E d \in 1..MaxDrains :
         \/ SegmentOpened(d)
         \/ SegmentClosed(d)
         \/ PlaylistOpened(d)
         \/ PlaylistClosed(d)
         \/ PlaylistRenamed(d)
         \/ MasterRead(d)
         \/ MasterAppended(d)
         \/ Removed(d)

SpecParse == InitParse /\ [][NextParse]_vars

(***************************************************************************)
(* Properties of Spec                                                      *)
(***************************************************************************)

TenHours == 36000000

\* The names listed in a playlist text
ListedNames(content) ==
    { content[i].rest : i \in { j \in 1..Len(content) : content[j].tag = "" } }

\* The number of lines of the master playlist that are the reference line
References ==
    Cardinality({ i \in 1..Len(mplfile.content) : mplfile.content[i] = ReferenceLine })

\* C1: the file at the playlist path is absent, the file that existed at
\* start-up, or a complete rendering of one (sequence number, window) state:
\* never a partially written or empty playlist.
C1_PlaylistNeverPartial ==
    \/ ~plfile.exists
    \/ startup.exists /\ plfile.content = RenderPlaylist(startup.seq, startup.window)
    \/ plfile.content \in rendered

\* C2: every segment name listed in the playlist file on disk has a backing
\* segment file that exists and is completely written (no writer has it open).
C2_ListedSegmentsExist ==
    plfile.exists =>
        \A n \in ListedNames(plfile.content) :
            n \in DOMAIN segfiles /\ segfiles[n].writers = {}

\* C3: once a rotation has pushed and pruned the window, the window holds at
\* most hls_list_size segments, whatever it was before.
C3_WindowBounded ==
    Len(pushed) > 0 => Len(playlist) <= hls_list_size

\* C4: in a run, sequence number + window length grows by exactly one per
\* appended segment, each evicted segment increments the sequence number by
\* exactly one, and the sequence number never decreases.
C4_SequencePlusLength ==
    [][ phase = "run" =>
          /\ seq' >= seq
          /\ seq' - seq = evicted' - evicted
          /\ seq' + Len(playlist') = seq + Len(playlist) + (Len(pushed') - Len(pushed))
      ]_vars

C4_Witness ==
    /\ evicted > 0
    /\ Len(pushed) > 1
    /\ \A d \in DOMAIN drains : drains[d].pc = "idle"

\* C5: reconstructing from a playlist the rewrite step produced for sequence
\* number s and window W yields sequence counter s and a window equal to W.
C5_ReconstructionRoundTrip ==
    (phase = "run" /\ startup.exists /\ Len(pushed) = 0) =>
        /\ seq = startup.seq
        /\ playlist = startup.window

\* C6: the first segment the process appends to the window is marked
\* discontinuous and no later segment appended in that run is.
C6_OnlyFirstDiscontinuous ==
    \A i \in 1..Len(pushed) : pushed[i].discontinuity = (i = 1)

C10_OneReference ==
    mplfile.exists =>
        /\ References <= 1
        /\ ~is_first => References = 1

\* The calls of write_segment that are past their first await and not returned
InProgress == { d \in DOMAIN drains : drains[d].pc # "idle" }

\* The timers that are pending: the one write_segment_to names, and the others
PendingTimers == (IF timer.handle THEN 1 ELSE 0) + timer.stale

\* C12: write_segment is never re-entered: at most one call of it is in
\* progress (between its first await and its return) at any time.
C12_NeverReentered ==
    Cardinality(InProgress) <= 1

\* C13: at most one rotation timer is pending at any time.
C13_OneTimerPending ==
    PendingTimers <= 1

\* C14: no empty segment is emitted: every segment appended to the window was
\* written from at least one dialogue record.
C14_NoEmptySegment ==
    \A i \in 1..Len(written) :
        /\ Len(written[i].recs) >= 1
        /\ Len(written[i].lines) >= 1

\* The duration the records written into one segment span
SpanOf(recs) ==
    IF Len(recs) = 1 THEN hls_time * 1000
    ELSE recs[Len(recs)].Start - recs[1].Start

\* C15: the duration recorded for a segment is the start of the last record
\* written into it minus the start of the first, or the nominal segment
\* duration when exactly one record was written, also when lines arrived
\* while the drain was in progress.
C15_DurationSpansWritten ==
    \A i \in 1..Len(written) :
        Len(written[i].recs) >= 1 =>
            written[i].segment.duration = SpanOf(written[i].recs)

\* The start of a segment on the records' time axis: its date less timebase
NominalStart(segment) == segment.date - timebase

\* C19: every record written into a segment file has its start re-based to
\* (corrected start - nominal start of the segment), the first record's start
\* being 0; a finite end is shifted by the same delta and an open end is
\* written open.
C19_Rebased ==
    \A i \in 1..Len(written) :
        LET w == written[i]
        IN  \A j \in 1..Len(w.recs) :
              /\ parseTSString(w.lines[j].Start) = w.recs[j].Start - NominalStart(w.segment)
              /\ j = 1 => parseTSString(w.lines[j].Start) = 0
              /\ IF w.recs[j].End = Infinity
                 THEN w.lines[j].End = <<>>
                 ELSE parseTSString(w.lines[j].End) = w.recs[j].End - NominalStart(w.segment)

\* C16: every segment in the window, appended by this run or reconstructed
\* at start-up, has a duration greater than 0.
C16_DurationPositive ==
    \A i \in 1..Len(playlist) : playlist[i].duration > 0

\* C17: every record in the event buffer has an open end or an end that is
\* not before its start (the lines fed are those of an encoder that wraps
\* each timestamp at 10 hours, for cues with non-decreasing starts and no end
\* before its start).
C17_EndNotBeforeStart ==
    \A i \in 1..Len(events) :
        events[i].End = Infinity \/ events[i].End >= events[i].Start

\* C18 as claimed: the concatenation of all batches returned by successive
\* push and flush calls lists the records in arrival order (and so holds no
\* record twice).
C18_ConcatenationInArrivalOrder ==
    InArrivalOrder(q_out)

\* C18, amended: every batch returned by push or by flush lists its records
\* in arrival order, and no record is returned twice over all batches; a
\* record left queued may be returned after records that arrived later.
C18_BatchInArrivalOrder ==
    /\ InArrivalOrder(q_buf)
    /\ \A i, j \in 1..Len(q_out) : i # j => q_out[i].arrival # q_out[j].arrival

C18_Witness ==
    /\ q_pc = "flushed"
    /\ Len(q_buf) >= 2
    /\ \E i, j \in 1..Len(q_out) : i < j /\ q_out[i].arrival > q_out[j].arrival

\* The comma-separated fields of a dialogue line
FieldsOf(l) == SplitAll(Substring(l, 10, Len(l)), ",")

\* A timestamp text one of whose components (between ':' and '.', after a
\* leading sign) holds something that is not a digit
NonNumeric(ts) ==
    /\ ts # OpenEndLiteral
    /\ \E i \in 1..Len(ts) :
         /\ ~IsDigit(ts[i])
         /\ ts[i] \notin {":", "."}
         /\ ~(i = 1 /\ ts[i] = "-")

\* A line with fewer fields than declared, or with such a timestamp
Malformed(l) ==
    LET fields == FieldsOf(l)
    IN  \/ Len(fields) < Len(eventFormat)
        \/ Len(fields) >= 2 /\ NonNumeric(fields[2])
        \/ Len(fields) >= 3 /\ NonNumeric(fields[3])

\* C11: a line with fewer fields than the declared field list, or with a
\* timestamp holding a non-numeric component, fails when it is parsed and
\* ends the process; no record built from it enters the event buffer.
C11_MalformedLineRejected ==
    (stdin.read /\ Malformed(stdin.line)) => (phase = "exit" /\ fed = 0)

(***************************************************************************)
(* Specification SpecBurst: the process fed by an input that need not      *)
(* pause: lines may keep arriving for as long as no segment is complete    *)
(***************************************************************************)

\* Bounds: the records of the event buffer the model keeps (a line handled
\* while that many are buffered re-arms the timer and is otherwise not
\* tracked), and the calls of write_segment that get to open a segment
MaxBuffered == 2

MaxSegments == 2

\* The dialogue lines of the burst: (Start text, End text)
BurstTexts ==
    { <<EncoderText(100), OpenEndLiteral>>,
      <<EncoderText(700), EncoderText(1700)>> }

BurstRows == { AssDialogue(t[1], t[2], "Default", "a") : t \in BurstTexts }

\* Whether the run is within the bound on segments
SegmentsLeft == Len(pushed) + Cardinality(InProgress) < MaxSegments

\* rl.on('line') for a line of the burst: the rollover correction, the push
\* on the buffer, and clearTimeout followed by setTimeout(write_segment, 500)
BurstLine(row) ==
    /\ SegmentsLeft
    /\ phase = "run"
    /\ LET fixed == CorrectedRow(row, last_time)
           kept  == Len(events) < MaxBuffered
       IN  /\ events' = IF kept THEN Append(events, fixed) ELSE events
           /\ fed' = IF kept THEN fed + 1 ELSE fed
           /\ last_time' = [ Start |-> fixed.Start,
                             End   |-> IF fixed.End # Infinity THEN fixed.End
                                       ELSE last_time.End ]
    /\ timer' = [timer EXCEPT !.handle = TRUE]
    /\ last_line' = row
    /\ UNCHANGED <<phase, playlist, seq, is_first, drains, fileVars,
                   startup, rendered, pushed, evicted, written, stdin,
                   codecVars, queueVars>>

\* A pending timer fires, within the bound on segments
BurstTick(named) ==
    /\ SegmentsLeft
    /\ Tick(named)

LineArrives == \E row \in BurstRows : BurstLine(row)

InitBurst == InitStream

NextBurst ==
    \/ ReadCurrentPlaylist
    \/ LineArrives
    \/ \E named \in BOOLEAN : BurstTick(named)
    \/ \E d \in 1..MaxDrains :
         \/ SegmentOpened(d)
         \/ SegmentClosed(d)
         \/ PlaylistOpened(d)
         \/ PlaylistClosed(d)
         \/ PlaylistRenamed(d)
         \/ MasterRead(d)
         \/ MasterAppended(d)
         \/ Removed(d)

\* What the event loop guarantees: a file operation that was started
\* completes, and a timer that stays pending fires. The timer write_segment_to
\* names stays pending only while no line arrives: each line clears it and
\* sets a new one 500 ms ahead (line handler, clearTimeout and setTimeout).
FairBurst ==
    /\ WF_vars(ReadCurrentPlaylist)
    /\ WF_vars(BurstTick(FALSE))
    /\ ([]<><<LineArrives>>_vars) \/ WF_vars(BurstTick(TRUE))
    /\ \A d \in 1..MaxDrains :
         /\ WF_vars(SegmentOpened(d))
         /\ WF_vars(SegmentClosed(d))
         /\ WF_vars(PlaylistOpened(d))
         /\ WF_vars(PlaylistClosed(d))
         /\ WF_vars(PlaylistRenamed(d))
         /\ WF_vars(MasterRead(d))
         /\ WF_vars(MasterAppended(d))
         /\ WF_vars(Removed(d))

SpecBurst == InitBurst /\ [][NextBurst]_vars /\ FairBurst

\* The records are where they belong: a step leaves the buffer alone, or
\* appends one record at its tail, or moves the whole of it, in order, into
\* the one segment being opened, or lands the records of a segment, in
\* order, in the window; and no record is in two places
BufferStep ==
    \/ events' = events /\ written' = written
    \/ /\ Len(events') = Len(events) + 1
       /\ SubSeq(events', 1, Len(events)) = events
       /\ written' = written
    \/ /\ events' = <<>>
       /\ written' = written
       /\ \E d \in 1..MaxDrains :
            /\ drains[d].pc = "seg_open"
            /\ drains'[d].recs = events
            /\ \A e \in 1..MaxDrains \ {d} : drains'[e] = drains[e]
    \/ /\ events' = events
       /\ \E d \in 1..MaxDrains :
            /\ drains[d].pc = "seg_close"
            /\ Len(written') = Len(written) + 1
            /\ SubSeq(written', 1, Len(written)) = written
            /\ written'[Len(written')].recs = drains[d].recs
            /\ drains'[d].recs = <<>>

\* The records handled are all in the buffer, in a segment being written or
\* in a written segment, once each
RECURSIVE RecordsIn(_)
RecordsIn(segs) ==
    IF segs = <<>> THEN 0 ELSE Len(Head(segs).recs) + RecordsIn(Tail(segs))

RECURSIVE RecordsOf(_)
RecordsOf(ds) ==
    IF ds = {} THEN 0
    ELSE LET d == CHOOSE e \in ds : TRUE
         IN  Len(drains[d].recs) + RecordsOf(ds \ {d})

EachRecordOnce ==
    fed = Len(events) + RecordsOf(DOMAIN drains) + RecordsIn(written)

\* While the buffer is non-empty, a timer is pending or a drain is about to
\* take the buffer
Served ==
    (phase = "run" /\ Len(events) > 0) =>
        (timer.handle \/ timer.stale > 0
            \/ \E d \in InProgress : drains[d].pc = "seg_open")

\* The buffer, once non-empty, is emptied into a segment
Drained ==
    (phase = "run" /\ Len(events) > 0) ~> (Len(events) = 0 \/ phase = "exit")

\* C20: provided the process does not exit and no I/O fails, every
\* record the line handler appends to the event buffer is eventually written
\* into exactly one segment file, in arrival order: whenever the buffer is
\* non-empty, a rotation timer is pending or a drain is in progress.
C20_EveryRecordWritten ==
    /\ [][BufferStep]_vars
    /\ [](EachRecordOnce /\ Served)
    /\ Drained

\* The same for an input that pauses: if the lines stop arriving at some
\* point (no line for the 500 ms of the timer), every record appended to the
\* event buffer is eventually written into exactly one segment file, in
\* arrival order
WrittenOnceWhenInputPauses ==
    /\ [][BufferStep]_vars
    /\ [](EachRecordOnce /\ Served)
    /\ (<>[][~LineArrives]_vars) => Drained

====
